---- MODULE Spec2Model ----
(***************************************************************************)
(* Session/worker coordination layer of the ALFWorld API gateway           *)
(* (alfworld/api/session_manager.py, alfworld/api/routes.py).              *)
(*                                                                         *)
(* The gateway runs on one asyncio event loop: a coroutine runs without    *)
(* interruption from one suspending await to the next, so every action     *)
(* below is one such segment of a handler.  Blocking calls (container      *)
(* start, attach, kill, the stdin-write/stdout-read exchange) run in the   *)
(* executor and the coroutine resumes in a later segment.                  *)
(***************************************************************************)
EXTENDS Integers, Sequences, FiniteSets, TLC

\* ---------------------------------------------------------------- bounds
\* ServerConfig.max_sessions, scaled down (the semaphore's initial value).
max_sessions == 1
\* ServerConfig.idle_timeout_s, scaled down (clock units).
idle_timeout_s == 0
\* Number of client operations (HTTP requests) taken up in a run.
MaxOps == 3
\* Number of create_session calls turned away in a run.
MaxRefused == 1

\* A create_session call draws a fresh uuid4; the call's index stands for it.
Ids == 1..MaxOps

VARIABLES
    semaphore,       \* SessionManager._semaphore._value
    sessions,        \* SessionManager._sessions: its keys, in insertion order
    status,          \* Session.status of each session object
    idle,            \* now - Session.last_active_at, in clock units, of each
                     \* session in the map, counted up to idle_timeout_s + 1
                     \* (kept 0 for an id that is not in the map)
    lock,            \* Session.lock: 0 when free, else the step holding it
    container,       \* the container of each id: "none", "running", "dead"
    kills,           \* number of container.kill() calls issued for each id
    releases,        \* number of _semaphore.release() calls made for each admission
    removed,         \* which path popped each id from _sessions ("none" if none did)
    ops,             \* the client operations taken up so far, each with its position
    no_slots,        \* number of create_session calls that raised NoSlotsAvailable
    cleanup_task,    \* the reaper task (_cleanup_loop)
    shutdown_task,   \* SessionManager.shutdown, run by the lifespan
    \* One read of the attached stream, followed through the frame decoder:
    codec_frames,    \* the frames the daemon sends, each a kind and a payload
    codec_cut,       \* how many of their bytes the first recv delivers
    codec_reads,     \* number of recv calls decoded so far
    codec_text,      \* the text decoded so far (buf of _read_from_stdout)
    \* One session's channel, followed through a sequence of exchanges:
    written,         \* number of commands written to the worker's stdin
    replied,         \* number of commands the worker has answered
    wire,            \* frames sent by the worker, not yet received
    closed,          \* whether the worker's end of the stream is closed
    read_buffer,     \* Session._read_buffer
    buf,             \* buf, the local of the _read_from_stdout in progress
    reading,         \* whether an exchange is in its _read_from_stdout
    unread,          \* the text received and not yet returned as a line
    returned         \* what each exchange so far has returned

\* The variables of the registry, of the decoder and of the channel.
svars == <<semaphore, sessions, status, idle, lock, container, kills,
           releases, removed, ops, no_slots, cleanup_task, shutdown_task>>

cvars == <<codec_frames, codec_cut, codec_reads, codec_text>>

xvars == <<written, replied, wire, closed, read_buffer, buf, reading, unread,
           returned>>

wvars == <<cvars, xvars>>

vars == <<svars, wvars>>

\* ------------------------------------------------------------- helpers
Range(q) == {q[k] : k \in 1..Len(q)}

Remove(q, x) == SelectSeq(q, LAMBDA y : y # x)

\* An operation's record.  sid: the session it is about; snap: the ids a
\* delete_all found in the map when it started (session_ids, line 282); q:
\* those it still has to visit; deleted: the ids it deleted; resp: the
\* response object a step received.
NoResp == [isdict |-> FALSE, status |-> "unset", done |-> FALSE]

Op(kind, sid, pc) ==
    [kind |-> kind, sid |-> sid, pc |-> pc, snap |-> <<>>, q |-> <<>>,
     deleted |-> <<>>, resp |-> NoResp]

OpIds == 1..Len(ops)

\* ------------------------------------------------- the worker exchange
\* What one stdin-write/stdout-read round trip can meet.
Outcomes == {"ok", "ok_done", "error_object", "timeout", "eof", "unparseable",
             "not_an_object"}

\* A container whose kill has completed cannot answer.
PossibleOutcomes(s) ==
    IF container[s] = "running" THEN Outcomes ELSE Outcomes \ {"ok", "ok_done"}

\* The kinds of command of the worker protocol.
InitOutcomes(s) == PossibleOutcomes(s) \ {"ok_done"}

\* _send_command_sync: json.loads of the line that was read, or the synthetic
\* error object when the write, the read or the parse raised.  A line that
\* parses as JSON but is no object is returned as it is (not a dict).
send_command_sync(outcome) ==
    CASE outcome = "ok" -> [isdict |-> TRUE, status |-> "ok", done |-> FALSE]
      [] outcome = "ok_done" -> [isdict |-> TRUE, status |-> "ok", done |-> TRUE]
      [] outcome = "error_object" -> [isdict |-> TRUE, status |-> "error", done |-> FALSE]
      [] outcome \in {"timeout", "eof", "unparseable"} ->
             [isdict |-> TRUE, status |-> "error", done |-> FALSE]
      [] OTHER -> [isdict |-> FALSE, status |-> "none", done |-> FALSE]

\* send_command (lines 177-182): what the awaiting coroutine can receive.
InitResponses(s) == {send_command_sync(o) : o \in InitOutcomes(s)}

StepResponses(s) == {send_command_sync(o) : o \in PossibleOutcomes(s)}

\* ------------------------------------------------------ the semaphore
\* A capacity test that is off by one.
HasSlotOffByOne(v) == v >= 0

\* create_session's capacity test, `self._semaphore._value > 0`.
HasSlot(v) == v > 0

\* An acquire that forgets to take the permit.
SemAcquireNoTake(v) ==
    IF v > 0 THEN [value |-> v, blocked |-> FALSE]
    ELSE [value |-> v, blocked |-> TRUE]

\* asyncio.Semaphore.acquire: with a positive value it takes the permit and
\* returns without suspending; otherwise the caller is parked as a waiter.
SemAcquire(v) ==
    IF v > 0 THEN [value |-> v - 1, blocked |-> FALSE]
    ELSE [value |-> v, blocked |-> TRUE]

\* asyncio.Semaphore.release: unbounded, the value just grows.
SemRelease(v) == v + 1

\* ------------------------------------------------------------ lookups
\* SessionManager.get_session: the record, whatever its status, or not found.
get_session(s) ==
    IF s \in Range(sessions)
    THEN [found |-> TRUE, status |-> status[s]]
    ELSE [found |-> FALSE, status |-> "none"]

\* SessionManager.active_session_count
active_session_count == Len(sessions)

\* Ids a client can name: those a create_session call has returned to it.
KnownIds == {i \in OpIds : ops[i].kind = "create" /\ ops[i].pc = "returned"}

\* The positions at which a handler has answered its client.
Answered == {"returned", "container-error", "ok", "session-not-found",
             "session-already-done", "internal", "cancelled"}

InFlight == {i \in OpIds : ops[i].pc \notin Answered}

ShutdownStarted == shutdown_task.pc # "none"

\* A new HTTP request can be taken up: the server still accepts, and the
\* run's budget of operations is not used up.
CanInvoke == Len(ops) < MaxOps /\ ~ShutdownStarted

\* No stream is being decoded / no exchange has been made on the channel.
InitCodecIdle ==
    /\ codec_frames = <<>>
    /\ codec_cut = 0
    /\ codec_reads = 0
    /\ codec_text = <<>>

InitChannelIdle ==
    /\ written = 0
    /\ replied = 0
    /\ wire = <<>>
    /\ closed = FALSE
    /\ read_buffer = <<>>
    /\ buf = <<>>
    /\ reading = FALSE
    /\ unread = <<>>
    /\ returned = <<>>

\* SessionManager.__init__: the registry after construction.
InitSessions ==
    /\ semaphore = max_sessions
    /\ sessions = <<>>
    /\ status = [s \in Ids |-> "none"]
    /\ idle = [s \in Ids |-> 0]
    /\ lock = [s \in Ids |-> 0]
    /\ container = [s \in Ids |-> "none"]
    /\ kills = [s \in Ids |-> 0]
    /\ releases = [s \in Ids |-> 0]
    /\ removed = [s \in Ids |-> "none"]
    /\ ops = <<>>
    /\ no_slots = 0
    /\ cleanup_task = [pc |-> "sleep", sid |-> 0, q |-> <<>>]
    /\ shutdown_task = [pc |-> "none", sid |-> 0, q |-> <<>>]

Init == InitSessions /\ InitCodecIdle /\ InitChannelIdle

\* ===================================================== create_session
\* Lines 72-90: the capacity test, the acquire, the choice of the game file
\* and of the uuid, up to the await of the container start.  A call that is
\* turned away raises NoSlotsAvailable at line 74 and is only counted.
create_session_admit ==
    /\ ~ShutdownStarted
    /\ IF ~HasSlot(semaphore)
       THEN /\ no_slots < MaxRefused
            /\ no_slots' = no_slots + 1
            /\ UNCHANGED <<semaphore, ops>>
       ELSE /\ Len(ops) < MaxOps
            /\ LET c == Len(ops) + 1
                   a == SemAcquire(semaphore)
               IN /\ semaphore' = a.value
                  /\ ops' = Append(ops, Op("create", c,
                                 IF a.blocked THEN "wait_acquire" ELSE "start"))
            /\ UNCHANGED no_slots
    /\ UNCHANGED <<sessions, status, idle, lock, container, kills, releases,
                   removed, cleanup_task, shutdown_task>>
    /\ UNCHANGED wvars

\* Lines 94-97, then 135-137 when it raised: _start_container returned a
\* container, or raised (the run failed, or no game file could be chosen).
create_session_started(c, started) ==
    /\ c \in OpIds /\ ops[c].kind = "create" /\ ops[c].pc = "start"
    /\ IF started
       THEN /\ container' = [container EXCEPT ![c] = "running"]
            /\ ops' = [ops EXCEPT ![c].pc = "attach"]
            /\ UNCHANGED <<semaphore, releases>>
       ELSE /\ semaphore' = SemRelease(semaphore)
            /\ releases' = [releases EXCEPT ![c] = @ + 1]
            /\ ops' = [ops EXCEPT ![c].pc = "container-error"]
            /\ UNCHANGED container
    /\ UNCHANGED <<sessions, status, idle, lock, kills, removed, cleanup_task, shutdown_task, no_slots>>
    /\ UNCHANGED wvars

\* Lines 100-118: _attach_container returned; the Session is built and put in
\* the map, and the init exchange is handed to the executor.  When the attach
\* raised, lines 135-137: the permit is released and nothing else is done.
create_session_attached(c, attached) ==
    /\ c \in OpIds /\ ops[c].kind = "create" /\ ops[c].pc = "attach"
    /\ IF attached
       THEN /\ sessions' = Append(sessions, c)
            /\ status' = [status EXCEPT ![c] = "active"]
            /\ idle' = [idle EXCEPT ![c] = 0]
            /\ ops' = [ops EXCEPT ![c].pc = "init"]
            /\ UNCHANGED <<semaphore, releases>>
       ELSE /\ semaphore' = SemRelease(semaphore)
            /\ releases' = [releases EXCEPT ![c] = @ + 1]
            /\ ops' = [ops EXCEPT ![c].pc = "container-error"]
            /\ UNCHANGED <<sessions, status, idle>>
    /\ UNCHANGED <<lock, container, kills, removed,
                   cleanup_task, shutdown_task, no_slots>>
    /\ UNCHANGED wvars

\* Lines 118-131 and 133-137: the init exchange came back with `response`.
\*   - not a dict: response.get raises AttributeError, caught at line 135:
\*     the permit is released, the record and the container are left alone;
\*   - status not ok: the container's kill is issued and awaited (line 121);
\*   - status ok: the session is returned.
create_session_init_response(c, response) ==
    /\ c \in OpIds /\ ops[c].kind = "create" /\ ops[c].pc = "init"
    /\ response \in InitResponses(c)
    /\ IF ~response.isdict
       THEN /\ semaphore' = SemRelease(semaphore)
            /\ releases' = [releases EXCEPT ![c] = @ + 1]
            /\ ops' = [ops EXCEPT ![c] = [@ EXCEPT !.pc = "container-error",
                                                   !.resp = response]]
            /\ UNCHANGED kills
       ELSE IF response.status # "ok"
       THEN /\ kills' = [kills EXCEPT ![c] = @ + 1]
            /\ ops' = [ops EXCEPT ![c] = [@ EXCEPT !.pc = "rollback_kill",
                                                   !.resp = response]]
            /\ UNCHANGED <<semaphore, releases>>
       ELSE /\ ops' = [ops EXCEPT ![c] = [@ EXCEPT !.pc = "returned",
                                                   !.resp = response]]
            /\ UNCHANGED <<semaphore, releases, kills>>
    /\ UNCHANGED <<sessions, status, idle, lock, container, removed, cleanup_task, shutdown_task, no_slots>>
    /\ UNCHANGED wvars

\* Lines 121-126: the rollback's kill came back (its failure is swallowed by
\* _kill_container); pop(session_id, None), release, raise ContainerError.
create_session_rollback(c) ==
    /\ c \in OpIds /\ ops[c].kind = "create" /\ ops[c].pc = "rollback_kill"
    /\ container' = [container EXCEPT ![c] = "dead"]
    /\ sessions' = Remove(sessions, c)
    /\ idle' = [idle EXCEPT ![c] = 0]
    /\ semaphore' = SemRelease(semaphore)
    /\ releases' = [releases EXCEPT ![c] = @ + 1]
    /\ ops' = [ops EXCEPT ![c].pc = "container-error"]
    /\ UNCHANGED <<status, lock, kills, removed, cleanup_task, shutdown_task, no_slots>>
    /\ UNCHANGED wvars

\* The client of create_session went away and its handler task is cancelled:
\* CancelledError is raised at the await the coroutine is suspended at (lines
\* 94, 100, 118 or 121).  It is no Exception, so neither handler of lines
\* 133-137 catches it: nothing is released, killed or popped.  The call
\* already handed to the executor is not interrupted: a container start still
\* queued is dropped or runs (`ran`), a kill runs to its end.
create_session_cancelled(c, ran) ==
    /\ c \in OpIds /\ ops[c].kind = "create"
    /\ ops[c].pc \in {"start", "attach", "init", "rollback_kill"}
    /\ ops[c].pc # "start" => ran
    /\ container' = [container EXCEPT ![c] =
                         IF ops[c].pc = "start" THEN (IF ran THEN "running" ELSE "none")
                         ELSE IF ops[c].pc = "rollback_kill" THEN "dead"
                         ELSE @]
    /\ ops' = [ops EXCEPT ![c].pc = "cancelled"]
    /\ UNCHANGED <<semaphore, sessions, status, idle, lock, kills, releases, removed,
                   cleanup_task, shutdown_task, no_slots>>
    /\ UNCHANGED wvars

\* ===================================================== delete_session
\* Line 293 (when the id is in the map) and 297 up to the await inside
\* _kill_container: the record is popped and the container's kill is handed
\* to the executor.  `by` names the caller, for the record.
delete_session_pop(s, by) ==
    /\ sessions' = Remove(sessions, s)
    /\ kills' = [kills EXCEPT ![s] = @ + 1]
    /\ removed' = [removed EXCEPT ![s] = by]
    /\ idle' = [idle EXCEPT ![s] = 0]

\* Lines 302-306 and 298: the kill came back (a failure is swallowed) and the
\* permit is released.
delete_session_release(s) ==
    /\ container' = [container EXCEPT ![s] = IF @ = "none" THEN @ ELSE "dead"]
    /\ semaphore' = SemRelease(semaphore)
    /\ releases' = [releases EXCEPT ![s] = @ + 1]

\* A loop that takes an id whose delete_session failed like any other.
SkipMissingNoSkip(q, present) == q

\* A loop over ids calling delete_session inside try/except: an id no longer
\* in the map raises SessionNotFound at once, which the loop swallows without
\* suspending, so the loop runs on to the first id that is still there.
RECURSIVE SkipMissing(_, _)
SkipMissing(q, present) ==
    IF q = <<>> THEN <<>>
    ELSE IF Head(q) \in present THEN q
    ELSE SkipMissing(Tail(q), present)

\* A pop that never misses.
pop_found_always(s) == TRUE

\* Lines 293-295: `self._sessions.pop(session_id, None)` finds the record, or
\* returns None and delete_session raises SessionNotFound.
pop_found(s) == s \in Range(sessions)

\* DELETE /sessions/{id} (routes.py 80-84), first segment.
delete_session_call(s) ==
    /\ CanInvoke
    /\ s \in KnownIds
    /\ IF pop_found(s)
       THEN /\ delete_session_pop(s, "client")
            /\ ops' = Append(ops, Op("delete", s, "killing"))
       ELSE /\ ops' = Append(ops, Op("delete", s, "session-not-found"))
            /\ UNCHANGED <<sessions, kills, removed, idle>>
    /\ UNCHANGED <<semaphore, status, lock, container, releases, cleanup_task, shutdown_task, no_slots>>
    /\ UNCHANGED wvars

\* DELETE /sessions/{id}, second segment: release and answer 200.
delete_session_killed(i) ==
    /\ i \in OpIds /\ ops[i].kind = "delete" /\ ops[i].pc = "killing"
    /\ delete_session_release(ops[i].sid)
    /\ ops' = [ops EXCEPT ![i].pc = "ok"]
    /\ UNCHANGED <<sessions, status, idle, lock, kills, removed, cleanup_task, shutdown_task, no_slots>>
    /\ UNCHANGED wvars

\* The client of a delete (of one id, or of all) went away while its handler
\* awaits the kill inside _kill_container (line 303): CancelledError passes
\* the `except Exception` of lines 304-306 and of the delete_all loop, so line
\* 298 is never reached.  The kill, already in the executor, runs to its end.
delete_session_cancelled(i) ==
    /\ i \in OpIds /\ ops[i].kind \in {"delete", "delete_all"}
    /\ ops[i].pc = "killing"
    /\ container' = [container EXCEPT ![ops[i].sid] = IF @ = "none" THEN @ ELSE "dead"]
    /\ ops' = [ops EXCEPT ![i] = [@ EXCEPT !.pc = "cancelled", !.q = <<>>]]
    /\ UNCHANGED <<semaphore, sessions, status, idle, lock, kills, releases, removed,
                   cleanup_task, shutdown_task, no_slots>>
    /\ UNCHANGED wvars

\* ================================================ delete_all_sessions
\* Lines 282-287: the snapshot of the keys and the loop up to the first await.
delete_all_sessions_call ==
    /\ CanInvoke
    /\ LET q == sessions
       IN IF q = <<>>
          THEN /\ ops' = Append(ops, Op("delete_all", 0, "ok"))
               /\ UNCHANGED <<sessions, kills, removed, idle>>
          ELSE /\ delete_session_pop(Head(q), "delete_all")
               /\ ops' = Append(ops, [Op("delete_all", Head(q), "killing")
                                      EXCEPT !.snap = q, !.q = Tail(q)])
    /\ UNCHANGED <<semaphore, status, lock, container, releases, cleanup_task, shutdown_task, no_slots>>
    /\ UNCHANGED wvars

\* Lines 286-290: one delete_session came back; its id is appended to
\* `deleted` and the loop runs on to the next id still in the map.
delete_all_sessions_next(i) ==
    /\ i \in OpIds /\ ops[i].kind = "delete_all" /\ ops[i].pc = "killing"
    /\ delete_session_release(ops[i].sid)
    /\ LET q == SkipMissing(ops[i].q, Range(sessions))
           deleted == Append(ops[i].deleted, ops[i].sid)
       IN IF q = <<>>
          THEN /\ ops' = [ops EXCEPT ![i] = [@ EXCEPT !.pc = "ok", !.sid = 0,
                                             !.q = <<>>, !.deleted = deleted]]
               /\ UNCHANGED <<sessions, kills, removed, idle>>
          ELSE /\ delete_session_pop(Head(q), "delete_all")
               /\ ops' = [ops EXCEPT ![i] = [@ EXCEPT !.sid = Head(q),
                                             !.q = Tail(q), !.deleted = deleted]]
    /\ UNCHANGED <<status, lock,
                   cleanup_task, shutdown_task, no_slots>>
    /\ UNCHANGED wvars

\* ======================================================= step_session
\* A status test against a word the status never takes.
RejectsStepWrongWord(st) == st = "finished"

\* routes.py line 57: a session whose status is done takes no more steps.
RejectsStep(st) == st = "done"

\* routes.py 56-60: the lookup, the status test, and the submission to the
\* batch coordinator, where the request waits in the open batch.
step_session_call(s) ==
    /\ CanInvoke
    /\ s \in KnownIds
    /\ LET session == get_session(s) IN
       ops' = Append(ops, Op("step", s,
                  IF ~session.found THEN "session-not-found"
                  ELSE IF RejectsStep(session.status) THEN "session-already-done"
                  ELSE "pending"))
    /\ UNCHANGED <<semaphore, sessions, status, idle, lock, container,
                   kills, releases, removed,
                   cleanup_task, shutdown_task, no_slots>>
    /\ UNCHANGED wvars

\* The batch coordinator's open batch: the submissions waiting for the timer.
Batch == {i \in OpIds : ops[i].kind = "step" /\ ops[i].pc = "pending"}

\* The batch window's timer fires: the batch is closed and every pending
\* submission is dispatched on its own scheduler unit.
batch_dispatch ==
    /\ Batch # {}
    /\ ops' = [i \in OpIds |->
                  IF i \in Batch THEN [ops[i] EXCEPT !.pc = "wait_lock"] ELSE ops[i]]
    /\ UNCHANGED <<semaphore, sessions, status, idle, lock, container,
                   kills, releases, removed,
                   cleanup_task, shutdown_task, no_slots>>
    /\ UNCHANGED wvars

\* A dispatched submission takes the session's lock once it is free and hands
\* its exchange (send_command, session_manager.py 177-182) to the executor.
submit_step_exchange(i) ==
    /\ i \in OpIds /\ ops[i].kind = "step" /\ ops[i].pc = "wait_lock"
    /\ lock[ops[i].sid] = 0
    /\ lock' = [lock EXCEPT ![ops[i].sid] = i]
    /\ ops' = [ops EXCEPT ![i].pc = "exchange"]
    /\ UNCHANGED <<semaphore, sessions, status, idle, container,
                   kills, releases, removed, cleanup_task,
                   shutdown_task, no_slots>>
    /\ UNCHANGED wvars

\* The steps whose exchange is running in the executor.
Exchanging == {i \in OpIds : ops[i].kind = "step" /\ ops[i].pc = "exchange"}

\* The exchange came back: on an ok response the coordinator updates the
\* session (last_active_at, and status when done is true), frees the lock and
\* hands the response to its caller.
submit_step_response(i, response) ==
    /\ i \in OpIds /\ ops[i].kind = "step" /\ ops[i].pc = "exchange"
    /\ response \in StepResponses(ops[i].sid)
    /\ LET s == ops[i].sid
           good == response.isdict /\ response.status = "ok"
       IN /\ idle' = IF good THEN [idle EXCEPT ![s] = 0] ELSE idle
          /\ status' = IF good /\ response.done THEN [status EXCEPT ![s] = "done"]
                       ELSE status
          /\ lock' = [lock EXCEPT ![s] = 0]
          /\ ops' = [ops EXCEPT ![i] = [@ EXCEPT !.pc = "result", !.resp = response]]
    /\ UNCHANGED <<semaphore, sessions, container, kills, releases, removed, cleanup_task, shutdown_task, no_slots>>
    /\ UNCHANGED wvars

\* A handler that answers 200 whatever the status of the result.
StepOutcomeLenient(result) ==
    IF ~result.isdict THEN "internal" ELSE "ok"

\* routes.py 62-64: a result whose status is not ok raises ContainerError;
\* result.get on a result that is no dict raises AttributeError (an internal
\* error); otherwise the handler answers 200.
StepOutcome(result) ==
    IF ~result.isdict THEN "internal"
    ELSE IF result.status # "ok" THEN "container-error"
    ELSE "ok"

\* A handler that marks the session done after every step.
MarksDoneAlways(result) == TRUE

\* routes.py 66-68: `done = result.get("done", False)`, `if done:`.
MarksDone(result) == result.done

\* routes.py 62-77: the handler resumes with the result.
step_session_result(i) ==
    /\ i \in OpIds /\ ops[i].kind = "step" /\ ops[i].pc = "result"
    /\ LET s == ops[i].sid
           result == ops[i].resp
           outcome == StepOutcome(result)
       IN /\ status' = IF outcome = "ok" /\ MarksDone(result)
                       THEN [status EXCEPT ![s] = "done"]
                       ELSE status
          /\ ops' = [ops EXCEPT ![i] = [@ EXCEPT !.pc = outcome, !.resp = NoResp]]
    /\ UNCHANGED <<semaphore, sessions, idle, lock, container, kills,
                   releases, removed, cleanup_task,
                   shutdown_task, no_slots>>
    /\ UNCHANGED wvars

\* ====================================================== _cleanup_loop
\* A scan that also takes the sessions whose idle age is just the timeout.
to_remove_inclusive ==
    SelectSeq(sessions, LAMBDA s : idle[s] >= idle_timeout_s)

\* Line 317-318: the sessions a sweep selects, in the map's order.
to_remove ==
    SelectSeq(sessions, LAMBDA s : idle[s] > idle_timeout_s)

\* Lines 313-324: the sleep is over; the scan, and the loop over to_remove up
\* to the first await.
cleanup_loop_sweep ==
    /\ cleanup_task.pc = "sleep"
    /\ LET q == to_remove
       IN IF q = <<>>
          THEN UNCHANGED <<sessions, kills, removed, idle, cleanup_task>>
          ELSE /\ delete_session_pop(Head(q), "reaper")
               /\ cleanup_task' = [pc |-> "killing", sid |-> Head(q), q |-> Tail(q)]
    /\ UNCHANGED <<semaphore, status, lock, container, releases, ops, shutdown_task, no_slots>>
    /\ UNCHANGED wvars

\* Lines 321-326: one delete_session came back; on to the next id of
\* to_remove still in the map, or back to sleep.
cleanup_loop_next ==
    /\ cleanup_task.pc = "killing"
    /\ delete_session_release(cleanup_task.sid)
    /\ LET q == SkipMissing(cleanup_task.q, Range(sessions))
       IN IF q = <<>>
          THEN /\ cleanup_task' = [pc |-> "sleep", sid |-> 0, q |-> <<>>]
               /\ UNCHANGED <<sessions, kills, removed, idle>>
          ELSE /\ delete_session_pop(Head(q), "reaper")
               /\ cleanup_task' = [pc |-> "killing", sid |-> Head(q), q |-> Tail(q)]
    /\ UNCHANGED <<status, lock, ops,
                   shutdown_task, no_slots>>
    /\ UNCHANGED wvars

\* =========================================================== shutdown
\* The lifespan (app.py 122-124) calls shutdown once the server has stopped
\* serving: no HTTP handler is running any more, only the reaper.
\* Lines 329-332: the reaper is cancelled and awaited.  CancelledError is no
\* Exception: raised at the reaper's await (the sleep, or the kill inside
\* delete_session) it passes `except Exception` in _kill_container and in the
\* loop, so a delete_session cut at its kill never reaches its release.  The
\* kill itself, already in the executor, still runs.
shutdown_cancel ==
    /\ shutdown_task.pc = "none"
    /\ InFlight = {}
    /\ shutdown_task' = [shutdown_task EXCEPT !.pc = "wait_reaper"]
    /\ container' = IF cleanup_task.pc = "killing"
                    THEN [container EXCEPT ![cleanup_task.sid] =
                              IF @ = "none" THEN @ ELSE "dead"]
                    ELSE container
    /\ cleanup_task' = [pc |-> "cancelled", sid |-> 0, q |-> <<>>]
    /\ UNCHANGED <<semaphore, sessions, status, idle, lock, kills,
                   releases, removed, ops, no_slots>>
    /\ UNCHANGED wvars

\* Lines 336-339: the reaper has ended; the snapshot of the keys and the loop
\* up to the first await.
shutdown_sweep ==
    /\ shutdown_task.pc = "wait_reaper"
    /\ LET q == sessions
       IN IF q = <<>>
          THEN /\ shutdown_task' = [pc |-> "done", sid |-> 0, q |-> <<>>]
               /\ UNCHANGED <<sessions, kills, removed, idle>>
          ELSE /\ delete_session_pop(Head(q), "shutdown")
               /\ shutdown_task' = [pc |-> "killing", sid |-> Head(q), q |-> Tail(q)]
    /\ UNCHANGED <<semaphore, status, lock, container, releases, ops, cleanup_task, no_slots>>
    /\ UNCHANGED wvars

\* Lines 337-341: one delete_session came back; on to the next id.
shutdown_next ==
    /\ shutdown_task.pc = "killing"
    /\ delete_session_release(shutdown_task.sid)
    /\ LET q == SkipMissing(shutdown_task.q, Range(sessions))
       IN IF q = <<>>
          THEN /\ shutdown_task' = [pc |-> "done", sid |-> 0, q |-> <<>>]
               /\ UNCHANGED <<sessions, kills, removed, idle>>
          ELSE /\ delete_session_pop(Head(q), "shutdown")
               /\ shutdown_task' = [pc |-> "killing", sid |-> Head(q), q |-> Tail(q)]
    /\ UNCHANGED <<status, lock, ops,
                   cleanup_task, no_slots>>
    /\ UNCHANGED wvars

\* ============================================================== clock
\* One unit of time passes: every session in the map is idle for one more.
Tick ==
    /\ \E s \in Range(sessions) : idle[s] <= idle_timeout_s
    /\ idle' = [s \in Ids |->
                   IF s \in Range(sessions) /\ idle[s] <= idle_timeout_s
                   THEN idle[s] + 1 ELSE idle[s]]
    /\ UNCHANGED <<semaphore, sessions, status, lock, container, kills,
                   releases, removed, ops, cleanup_task, shutdown_task, no_slots>>
    /\ UNCHANGED wvars

Next ==
    \/ create_session_admit
    \/ \E c \in Ids, b \in BOOLEAN : create_session_started(c, b)
    \/ \E c \in Ids, b \in BOOLEAN : create_session_attached(c, b)
    \/ \E c \in OpIds : \E r \in InitResponses(c) :
           create_session_init_response(c, r)
    \/ \E c \in Ids : create_session_rollback(c)
    \/ \E s \in Ids : delete_session_call(s)
    \/ \E i \in Ids : delete_session_killed(i)
    \/ delete_all_sessions_call
    \/ \E i \in Ids : delete_all_sessions_next(i)
    \/ \E s \in Ids : step_session_call(s)
    \/ batch_dispatch
    \/ \E i \in Ids : submit_step_exchange(i)
    \/ \E i \in Exchanging : \E r \in StepResponses(ops[i].sid) :
           submit_step_response(i, r)
    \/ \E i \in Ids : step_session_result(i)
    \/ cleanup_loop_sweep
    \/ cleanup_loop_next
    \/ shutdown_cancel
    \/ shutdown_sweep
    \/ shutdown_next
    \/ Tick

Spec == Init /\ [][Next]_vars

\* The same service with clients that may go away while their create or
\* delete request is being handled.
NextDisconnect ==
    \/ Next
    \/ \E c \in Ids, b \in BOOLEAN : create_session_cancelled(c, b)
    \/ \E i \in Ids : delete_session_cancelled(i)

SpecDisconnect == Init /\ [][NextDisconnect]_vars

\* The event loop keeps running: the reaper's sleep ends and its sweep runs
\* (line 313), and a kill handed to the executor returns, so that the
\* delete_session awaiting it resumes (lines 296-298).
Fairness ==
    /\ WF_vars(cleanup_loop_sweep)
    /\ WF_vars(cleanup_loop_next)
    /\ WF_vars(\E i \in Ids : delete_session_killed(i))
    /\ WF_vars(\E i \in Ids : delete_all_sessions_next(i))

SpecFair == Spec /\ Fairness

\* ================================================= _decode_docker_stream
\* Bytes are numbers 0..255 and text is a sequence of code points.  The
\* daemon multiplexes the attached stream in frames: an 8-byte header (the
\* stream kind, three zero bytes, the payload length as a 4-byte big-endian
\* number) followed by the payload.
MaxFrames == 2

MaxPayload == 2

STDOUT == 1

STDERR == 2

ReplacementChar == 65533

\* The payload bytes tried: the letter A and a byte that is not valid UTF-8.
PayloadBytes == {65, 255}

RECURSIVE Flatten(_)
Flatten(ss) == IF ss = <<>> THEN <<>> ELSE Head(ss) \o Flatten(Tail(ss))

SeqsUpTo(S, n) == UNION {[1..k -> S] : k \in 0..n}

\* bytes.decode("utf-8", errors="replace") on the bytes tried here: an ASCII
\* byte is its own code point, a lone byte >= 128 becomes U+FFFD.
utf8_decode(bytes) ==
    [k \in 1..Len(bytes) |-> IF bytes[k] < 128 THEN bytes[k] ELSE ReplacementChar]

\* int.from_bytes(b, "big") of four bytes, and its inverse.  The value is
\* only ever compared with the length of a buffer (at most 4096 bytes), so
\* from 2^30 on it is represented by 2^30, which keeps the sums in range.
from_bytes_big(b) ==
    IF b[1] >= 64 THEN 1073741824
    ELSE b[1] * 16777216 + b[2] * 65536 + b[3] * 256 + b[4]

to_bytes_big(n) ==
    <<(n \div 16777216) % 256, (n \div 65536) % 256, (n \div 256) % 256, n % 256>>

\* One well-formed frame as the daemon sends it.
FrameBytes(f) == <<f.kind, 0, 0, 0>> \o to_bytes_big(Len(f.payload)) \o f.payload

FramesBytes(fs) == Flatten([k \in 1..Len(fs) |-> FrameBytes(fs[k])])

Frames == [kind : {STDOUT, STDERR}, payload : SeqsUpTo(PayloadBytes, MaxPayload)]

\* Which complete frames add their payload to the result (line 247).
KeptKinds == {0, 1}

\* _decode_docker_stream from byte offset pos (0-based, as in the code): a
\* frame is taken when 8 header bytes are there, the kind is 0, 1 or 2, the
\* declared payload is all there and is not empty; otherwise the rest of
\* the buffer, header bytes included, is decoded as text and the loop ends.
RECURSIVE decode_docker_stream_from(_, _)
decode_docker_stream_from(raw, pos) ==
    IF pos >= Len(raw) THEN <<>>
    ELSE LET stream_type == raw[pos + 1]
             size == from_bytes_big(SubSeq(raw, pos + 5, pos + 8))
         IN IF /\ pos + 8 <= Len(raw)
               /\ stream_type \in {0, 1, 2}
               /\ pos + 8 + size <= Len(raw)
               /\ size > 0
            THEN (IF stream_type \in KeptKinds
                  THEN utf8_decode(SubSeq(raw, pos + 9, pos + 8 + size))
                  ELSE <<>>)
                 \o decode_docker_stream_from(raw, pos + 8 + size)
            ELSE utf8_decode(SubSeq(raw, pos + 1, Len(raw)))

decode_docker_stream(data) == decode_docker_stream_from(data, 0)

\* The bytes on the stream, and the chunk the next recv returns: the first
\* recv returns codec_cut bytes, the second one the rest.
Stream == FramesBytes(codec_frames)

Chunk ==
    IF codec_reads = 0 THEN SubSeq(Stream, 1, codec_cut)
    ELSE SubSeq(Stream, codec_cut + 1, Len(Stream))

\* One turn of the loop of _read_from_stdout that receives data (lines
\* 222-227): buf += self._decode_docker_stream(data).
codec_recv ==
    /\ codec_frames # <<>>
    /\ \/ codec_reads = 0
       \/ codec_reads = 1 /\ codec_cut < Len(Stream)
    /\ codec_text' = codec_text \o decode_docker_stream(Chunk)
    /\ codec_reads' = codec_reads + 1
    /\ UNCHANGED <<codec_frames, codec_cut>>
    /\ UNCHANGED <<svars, xvars>>

\* The decoder on its own: any list of well-formed frames, delivered in one
\* recv (codec_cut is the whole stream) or split anywhere over two.
InitCodec ==
    /\ InitSessions
    /\ InitChannelIdle
    /\ codec_frames \in SeqsUpTo(Frames, MaxFrames) \ {<<>>}
    /\ codec_cut \in 1..(MaxFrames * (8 + MaxPayload))
    /\ codec_cut <= Len(Stream)
    /\ codec_reads = 0
    /\ codec_text = <<>>

NextCodec == codec_recv

SpecCodec == InitCodec /\ [][NextCodec]_vars

\* ================================================== _send_command_sync
\* One session's channel over a sequence of exchanges.  The session lock
\* makes the exchanges of a session follow one another, so the k-th
\* exchange writes the k-th command.  The worker answers the commands in
\* the order it reads them, one line each; the daemon delivers a line in
\* one stdout frame or in two.
MaxCmds == 3

Newline == 10

LBrace == 123

RBrace == 125

\* The digit that tells the reply to command k from the others.
Digit(k) == 48 + k

\* The worker's reply to command k: a JSON object on one line.
Reply(k) == <<LBrace, Digit(k), RBrace, Newline>>

\* The frames in which the daemon sends a text: whole (n = 0), or in two
\* pieces of which the first has n characters.
Framing(text, n) ==
    IF n = 0 THEN <<[kind |-> STDOUT, payload |-> text]>>
    ELSE <<[kind |-> STDOUT, payload |-> SubSeq(text, 1, n)],
           [kind |-> STDOUT, payload |-> SubSeq(text, n + 1, Len(text))]>>

\* The index of the first newline of a text, 0 if there is none.
FirstNewline(text) ==
    IF \E k \in 1..Len(text) : text[k] = Newline
    THEN CHOOSE k \in 1..Len(text) :
             text[k] = Newline /\ \A j \in 1..(k - 1) : text[j] # Newline
    ELSE 0

\* buf.split("\n", 1)
LineOf(text) == SubSeq(text, 1, FirstNewline(text) - 1)

RestOf(text) == SubSeq(text, FirstNewline(text) + 1, Len(text))

\* json.loads succeeds on the line: here, the line is one of the replies.
IsJson(line) == \E k \in 1..MaxCmds : line = <<LBrace, Digit(k), RBrace>>

\* _extract_json_line: the line itself if it parses, else what starts at
\* its first "{" if that parses, else the line itself.
extract_json_line(line) ==
    IF IsJson(line) THEN line
    ELSE IF \E k \in 1..Len(line) : line[k] = LBrace
         THEN LET start == CHOOSE k \in 1..Len(line) :
                               line[k] = LBrace /\ \A j \in 1..(k - 1) : line[j] # LBrace
                  candidate == SubSeq(line, start, Len(line))
              IN IF IsJson(candidate) THEN candidate ELSE line
         ELSE line

\* What _send_command_sync returns for a line: the worker's reply it parses
\* to, named by the number of the command it answers, or 0 for the
\* "Communication error" object built when json.loads raises.
CommunicationError == 0

json_loads(line) ==
    IF IsJson(line) THEN line[2] - 48 ELSE CommunicationError

\* Lines 185-188 and 206: the command is written, then _read_from_stdout
\* starts with buf = session._read_buffer.
send_command_write ==
    /\ ~reading
    /\ written < MaxCmds
    /\ written' = written + 1
    /\ reading' = TRUE
    /\ buf' = read_buffer
    /\ UNCHANGED <<replied, wire, closed, read_buffer, unread, returned>>
    /\ UNCHANGED <<svars, cvars>>

\* The worker reads its next command and prints the reply.
worker_reply(n) ==
    /\ ~closed
    /\ replied < written
    /\ n < Len(Reply(replied + 1))
    /\ replied' = replied + 1
    /\ wire' = wire \o Framing(Reply(replied + 1), n)
    /\ UNCHANGED <<written, closed, read_buffer, buf, reading, unread, returned>>
    /\ UNCHANGED <<svars, cvars>>

\* Lines 215-220 and 189: a complete line is in buf; the rest is kept in
\* session._read_buffer and the line is parsed and returned.
read_from_stdout_line ==
    /\ reading
    /\ FirstNewline(buf) # 0
    /\ read_buffer' = RestOf(buf)
    /\ returned' = Append(returned, json_loads(extract_json_line(LineOf(buf))))
    /\ unread' = IF FirstNewline(unread) # 0 THEN RestOf(unread) ELSE <<>>
    /\ buf' = <<>>
    /\ reading' = FALSE
    /\ UNCHANGED <<written, replied, wire, closed>>
    /\ UNCHANGED <<svars, cvars>>

\* Lines 222-227: no complete line yet, the socket is readable; recv
\* returns the next n frames and their decoded text is appended to buf.
read_from_stdout_recv(n) ==
    /\ reading
    /\ FirstNewline(buf) = 0
    /\ n \in 1..Len(wire)
    /\ LET text == decode_docker_stream(FramesBytes(SubSeq(wire, 1, n)))
       IN /\ buf' = buf \o text
          /\ unread' = unread \o text
    /\ wire' = SubSeq(wire, n + 1, Len(wire))
    /\ UNCHANGED <<written, replied, closed, read_buffer, reading, returned>>
    /\ UNCHANGED <<svars, cvars>>

\* Lines 210-212 and 190-191: no complete line and the deadline has passed;
\* TimeoutError is raised, buf goes away with the frame of the call, and
\* _send_command_sync returns the error object.
read_from_stdout_timeout ==
    /\ reading
    /\ FirstNewline(buf) = 0
    /\ returned' = Append(returned, CommunicationError)
    /\ buf' = <<>>
    /\ reading' = FALSE
    /\ UNCHANGED <<written, replied, wire, closed, read_buffer, unread>>
    /\ UNCHANGED <<svars, cvars>>

\* Lines 224-226 and 190-191: no complete line, and recv returns no data
\* because the container has closed the stream; ConnectionError is raised
\* and _send_command_sync returns the error object.
read_from_stdout_eof ==
    /\ reading
    /\ FirstNewline(buf) = 0
    /\ wire = <<>>
    /\ closed' = TRUE
    /\ returned' = Append(returned, CommunicationError)
    /\ buf' = <<>>
    /\ reading' = FALSE
    /\ UNCHANGED <<written, replied, wire, read_buffer, unread>>
    /\ UNCHANGED <<svars, cvars>>

InitChannel ==
    /\ InitSessions
    /\ InitCodecIdle
    /\ InitChannelIdle

NextChannel ==
    \/ send_command_write
    \/ \E n \in 0..(Len(Reply(1)) - 1) : worker_reply(n)
    \/ read_from_stdout_line
    \/ \E n \in 1..(2 * MaxCmds) : read_from_stdout_recv(n)
    \/ read_from_stdout_timeout
    \/ read_from_stdout_eof

SpecChannel == InitChannel /\ [][NextChannel]_vars

\* ====================================================================
\* Properties
\* ====================================================================
CreateOps == {i \in OpIds : ops[i].kind = "create"}

\* The exchanges running on session s: the init exchange of its
\* create_session and the exchanges of steps.
ExchangesOn(s) ==
    {i \in OpIds : /\ ops[i].sid = s
                   /\ \/ ops[i].kind = "create" /\ ops[i].pc = "init"
                      \/ ops[i].kind = "step" /\ ops[i].pc = "exchange"}

\* The step commands handed to the worker of s so far.
StepWrites(s) ==
    {i \in OpIds : /\ ops[i].kind = "step" /\ ops[i].sid = s
                   /\ ops[i].pc \in {"exchange", "result", "ok", "container-error",
                                     "internal"}}

\* No public operation is in progress.
Quiescent ==
    /\ InFlight = {}
    /\ cleanup_task.pc \in {"sleep", "cancelled"}
    /\ shutdown_task.pc \in {"none", "done"}

\* This step is a call of create_session / a call of step_session on s.
CreateCalled ==
    \/ no_slots' # no_slots
    \/ Len(ops') = Len(ops) + 1 /\ ops'[Len(ops')].kind = "create"

StepCalled(s) ==
    /\ Len(ops') = Len(ops) + 1
    /\ ops'[Len(ops')].kind = "step"
    /\ ops'[Len(ops')].sid = s

\* C1: the number of records in the session map never exceeds max_sessions.
C1_SessionCountBound == Len(sessions) <= max_sessions

\* C2: whenever no public operation is in progress, the number of
\* outstanding permits equals the number of sessions in the map.
C2_PermitAccounting ==
    Quiescent => max_sessions - semaphore = Len(sessions)

\* C3: each acquired permit is released at most once (by the create-time
\* rollback or by the one removal of the session, never by both), so the
\* semaphore's value never exceeds max_sessions.
C3_ExactlyOnceRelease ==
    /\ \A s \in Ids : releases[s] <= 1
    /\ semaphore <= max_sessions

\* C4: the capacity test and the acquire of create_session are one step: a
\* call made with no permit available is turned away at once, leaving the
\* permit count, the map, the containers and the operations as they were; a
\* call made with a permit available takes it in that same step and goes on
\* to start its container, and never waits for a permit.
C4_AtomicAdmission ==
    [][CreateCalled =>
          IF semaphore <= 0
          THEN /\ no_slots' = no_slots + 1
               /\ UNCHANGED <<semaphore, sessions, container, ops>>
          ELSE /\ semaphore' = semaphore - 1
               /\ no_slots' = no_slots
               /\ ops'[Len(ops')].pc = "start"]_vars

C4_Witness ==
    /\ no_slots > 0
    /\ semaphore = 0
    /\ \E c \in CreateOps : ops[c].pc \in {"start", "attach", "init", "returned"}

\* Every create_session call taken up so far has returned its session and
\* nothing has been killed or removed.
AllCreated ==
    /\ \A c \in CreateOps : ops[c].pc = "returned"
    /\ \A s \in Ids : kills[s] = 0 /\ removed[s] = "none"

\* As AllCreated held with max_sessions sessions and at least one call turned
\* away, and then one client delete ran to its end.
OneDeleted ==
    /\ \A c \in CreateOps : ops[c].pc = "returned"
    /\ Cardinality(CreateOps) = max_sessions
    /\ no_slots >= 1
    /\ \E d \in OpIds :
          /\ ops[d].kind = "delete" /\ ops[d].pc = "ok"
          /\ \A s \in Ids : kills[s] = IF s = ops[d].sid THEN 1 ELSE 0

\* C5: of N+k create_session calls whose containers all start and initialize,
\* with no deletion in between, exactly N = max_sessions return a session and
\* the k others fail with no-slots; once one of those sessions has been
\* deleted, a further create_session is admitted.
C5_CapacityExhaustion ==
    /\ [](AllCreated /\ Cardinality(CreateOps) + no_slots >= max_sessions
            => Cardinality(CreateOps) = max_sessions)
    /\ [][OneDeleted /\ CreateCalled =>
             /\ no_slots' = no_slots
             /\ ops'[Len(ops')].pc = "start"]_vars

C5_Witness ==
    /\ no_slots >= 1
    /\ Cardinality(CreateOps) = max_sessions + 1
    /\ \A c \in CreateOps : ops[c].pc = "returned"
    /\ \E d \in OpIds :
          /\ ops[d].kind = "delete" /\ ops[d].pc = "ok"
          /\ \A s \in Ids : kills[s] = IF s = ops[d].sid THEN 1 ELSE 0
          /\ \E c \in CreateOps : c > d

\* C6: whenever create_session fails after acquiring its permit, the
\* container, if it was started, has been killed, the permit has been
\* released, and the map holds no record of the session.
C6_CreateRollback ==
    \A c \in CreateOps :
        ops[c].pc = "container-error" =>
            /\ container[c] # "none" => kills[c] >= 1
            /\ releases[c] >= 1
            /\ c \notin Range(sessions)

\* C7: a session whose init round-trip has returned a failure is not in the
\* map (get_session and the health count do not see it), and once
\* create_session has returned the failure its permit is not held.
C7_FailedInitInvisible ==
    \A c \in CreateOps :
        /\ ops[c].pc \in {"rollback_kill", "container-error"}
              => ~get_session(c).found
        /\ ops[c].pc = "container-error" => releases[c] >= 1

\* C8: at most one exchange runs on a session at any time, the init exchange
\* included, and every running exchange holds the session's lock.
C8_ExclusiveExchange ==
    \A s \in Ids :
        /\ Cardinality(ExchangesOn(s)) <= 1
        /\ \A i \in ExchangesOn(s) : lock[s] = i

\* C9: while an exchange is running on a session, no delete (the reaper's,
\* or any other caller of delete_session) removes its record or kills its
\* container.
C9_DeleteWaitsForExchange ==
    [][\A s \in Ids :
          (ExchangesOn(s) # {} /\ ExchangesOn(s) \subseteq ExchangesOn(s)')
             => /\ s \in Range(sessions) => s \in Range(sessions')
                /\ kills'[s] = kills[s]]_vars

\* C10: a step submitted for a session of the map whose status is done is
\* answered session-already-done, with nothing submitted to the batch
\* coordinator and nothing written to the worker; marking a session done
\* leaves its record in the map, where get_session still returns it.
C10_DoneIsAbsorbing ==
    /\ [](\A s \in Range(sessions) :
             status[s] = "done" =>
                 get_session(s).found /\ get_session(s).status = "done")
    /\ [][\A s \in Range(sessions) :
             /\ (status[s] = "done" /\ StepCalled(s))
                   => /\ ops'[Len(ops')].pc = "session-already-done"
                      /\ Batch' = Batch
                      /\ StepWrites(s)' = StepWrites(s)
             /\ (status[s] # "done" /\ status'[s] = "done")
                   => sessions' = sessions]_vars

C10_Witness ==
    \E i \in OpIds :
        /\ ops[i].kind = "step" /\ ops[i].pc = "session-already-done"
        /\ get_session(ops[i].sid).found
        /\ status[ops[i].sid] = "done"

\* ---------------------------------------------------------- removal
\* The permit releases made for s by create_session's own failure paths: a
\* create_session that ended in container-error released once on the way.
RollbackReleases(s) ==
    IF s \in CreateOps /\ ops[s].pc = "container-error" THEN 1 ELSE 0

\* The permit releases made for s by delete_session (line 297).
DeleteReleases(s) == releases[s] - RollbackReleases(s)

\* Some caller of delete_session has popped s and awaits its kill.
Deleting(s) ==
    \/ \E i \in OpIds : /\ ops[i].kind \in {"delete", "delete_all"}
                        /\ ops[i].pc = "killing" /\ ops[i].sid = s
    \/ cleanup_task.pc = "killing" /\ cleanup_task.sid = s
    \/ shutdown_task.pc = "killing" /\ shutdown_task.sid = s

\* A delete of s by a client has completed / this step is a client's delete of s.
DeletedOk(s) ==
    \E i \in OpIds :
        \/ ops[i].kind = "delete" /\ ops[i].sid = s /\ ops[i].pc = "ok"
        \/ ops[i].kind = "delete_all" /\ s \in Range(ops[i].deleted)

DeleteCalled(s) ==
    /\ Len(ops') = Len(ops) + 1
    /\ ops'[Len(ops')].kind = "delete"
    /\ ops'[Len(ops')].sid = s

\* C11: of the delete operations that run concurrently for one session id,
\* one removes the record and releases exactly one permit and the others
\* observe not-found and release nothing: delete_session never releases more
\* than one permit for an id, and once an id that a concurrent delete found
\* missing has been removed and no delete of it is still running, exactly one
\* permit has been released for the removal.
C11_AtomicRemoval ==
    \A s \in Ids :
        /\ DeleteReleases(s) <= 1
        /\ ( /\ removed[s] # "none"
             /\ ~Deleting(s)
             /\ \E i \in OpIds : /\ ops[i].kind = "delete" /\ ops[i].sid = s
                                 /\ ops[i].pc = "session-not-found" )
              => DeleteReleases(s) = 1

\* C12: a delete_session of an id issued after a delete of that id has
\* succeeded fails with session-not-found and changes neither the permit
\* count, nor the map, nor any container, nor the kills and releases made.
C12_IdempotentDelete ==
    [][\A s \in Ids :
          (DeletedOk(s) /\ DeleteCalled(s))
             => /\ ops'[Len(ops')].pc = "session-not-found"
                /\ UNCHANGED <<semaphore, sessions, container, kills, releases>>]_vars

C12_Witness ==
    \E i, j \in OpIds :
        /\ i < j
        /\ ops[i].kind = "delete" /\ ops[i].pc = "ok"
        /\ ops[j].kind = "delete" /\ ops[j].pc = "session-not-found"
        /\ ops[i].sid = ops[j].sid

\* C13: for every container, kill is issued at most once, over all the paths
\* that can kill it.
C13_KillAtMostOnce == \A s \in Ids : kills[s] <= 1

\* C14: when shutdown has completed, a kill has been issued for every
\* container that was started.
C14_KillAtLeastOnce ==
    shutdown_task.pc = "done" =>
        \A s \in Ids : container[s] # "none" => kills[s] >= 1

\* C15: every removal of a record from the map is followed by exactly one
\* permit release and one kill attempt: once no caller of delete_session is
\* still at work on a removed id, one kill has been issued and one permit
\* released for it.
C15_RemovalReleases ==
    \A s \in Ids :
        (removed[s] # "none" /\ ~Deleting(s))
            => DeleteReleases(s) = 1 /\ kills[s] >= 1

\* C16: when the task running create_session is cancelled after the permit
\* was acquired, the permit is released and a kill is issued for the
\* container if one was started.
C16_CancelledCreateCleansUp ==
    \A c \in CreateOps :
        ops[c].pc = "cancelled" =>
            /\ releases[c] >= 1
            /\ container[c] # "none" => kills[c] >= 1

\* C17: a sweep of the reaper selects exactly the sessions of the map whose
\* idle age at the scan exceeds idle_timeout_s, never one whose idle age is
\* at most idle_timeout_s; and while the reaper runs, a session of the map
\* whose idle age exceeds idle_timeout_s is eventually out of the map with
\* its permit released, unless a successful step makes it active again.
C17_IdleReap ==
    /\ [][(cleanup_task.pc = "sleep" /\ cleanup_task'.pc = "killing")
            => {cleanup_task'.sid} \cup Range(cleanup_task'.q)
                  = {s \in Range(sessions) : idle[s] > idle_timeout_s}]_vars
    /\ \A s \in Ids :
          (s \in Range(sessions) /\ idle[s] > idle_timeout_s)
             ~> \/ s \notin Range(sessions) /\ releases[s] >= 1
                \/ s \in Range(sessions) /\ idle[s] <= idle_timeout_s
                \/ cleanup_task.pc = "cancelled"

C17_Witness ==
    \E s \in Ids :
        /\ removed[s] = "reaper"
        /\ DeleteReleases(s) = 1
        /\ cleanup_task.pc = "sleep"

DeleteAllOps == {i \in OpIds : ops[i].kind = "delete_all"}

\* C18: delete_all_sessions returns exactly the ids that this call itself
\* removed.  The ids it deletes are ids of the map at the time it pops them,
\* taken from those present when the call started, each at most once and by
\* one call only; when the call returns, every id present at its start has
\* been attempted: it is in the result, or its deletion failed because another
\* task had removed it, and it is out of the map either way.
C18_DeleteAllResult ==
    /\ [](\A i \in DeleteAllOps :
            LET deleted == ops[i].deleted
                mine == Range(deleted) \cup
                           (IF ops[i].pc = "killing" THEN {ops[i].sid} ELSE {})
            IN /\ mine \subseteq Range(ops[i].snap)
               /\ Cardinality(Range(deleted)) = Len(deleted)
               /\ \A s \in mine : removed[s] = "delete_all" /\ ~get_session(s).found
               /\ \A j \in DeleteAllOps \ {i} : Range(ops[j].deleted) \cap mine = {}
               /\ ops[i].pc = "ok" =>
                     \A s \in Range(ops[i].snap) :
                         /\ ~get_session(s).found
                         /\ s \notin Range(deleted)
                               => removed[s] # "none" \/ ops[s].pc = "container-error")
    /\ [][\A i \in DeleteAllOps :
            /\ ops'[i].deleted # ops[i].deleted
                  => /\ ops[i].pc = "killing"
                     /\ ops'[i].deleted = Append(ops[i].deleted, ops[i].sid)
            /\ (ops'[i].pc = "killing" /\ ops'[i].sid # ops[i].sid)
                  => get_session(ops'[i].sid).found]_vars

C18_Witness ==
    \E i \in DeleteAllOps :
        /\ ops[i].pc = "ok"
        /\ ops[i].deleted # <<>>
        /\ Len(ops[i].deleted) < Len(ops[i].snap)

\* C19: shutdown deletes sessions only after the reaper has been cancelled
\* and has stopped, so that no deletion of the reaper starts once shutdown
\* deletes; and when shutdown has completed with no create_session in flight,
\* the map is empty and all max_sessions permits are available.
C19_ShutdownOrdering ==
    /\ shutdown_task.pc \in {"killing", "done"} => cleanup_task.pc = "cancelled"
    /\ ( /\ shutdown_task.pc = "done"
         /\ \A c \in CreateOps : c \notin InFlight )
          => sessions = <<>> /\ semaphore = max_sessions

\* The response objects that send_command has handed to its callers: the init
\* response of a create_session, the response a step is about to read.
Received ==
    {ops[i].resp : i \in {j \in OpIds : ops[j].resp # NoResp}}

\* C20: whatever the exchange met, send_command returns a JSON object with a
\* status field, which is "error" in every failure case.
C20_FailuresAreValues ==
    \A r \in Received : r.isdict /\ r.status \in {"ok", "error"}

StepOps == {i \in OpIds : ops[i].kind = "step"}

C25_StatusMonotonic ==
    [][\A s \in Ids :
          status'[s] # status[s] =>
              \/ /\ status[s] = "none" /\ status'[s] = "active"
                 /\ ~get_session(s).found /\ s \in Range(sessions')
              \/ /\ status[s] = "active" /\ status'[s] = "done"
                 /\ \E i \in StepOps :
                       LET r == IF ops[i].pc = "exchange" THEN ops'[i].resp
                                ELSE ops[i].resp
                       IN /\ ops[i].sid = s
                          /\ ops[i].pc \in {"exchange", "result"}
                          /\ ops'[i].pc # ops[i].pc
                          /\ r.isdict /\ r.status = "ok" /\ r.done]_vars

C25_Witness ==
    \E s \in Range(sessions) :
        /\ status[s] = "done"
        /\ \E i \in StepOps : ops[i].sid = s /\ ops[i].pc = "ok"

\* C26: when the reaper comes back from one deletion of a sweep, the permit
\* count grows by that one release only; the selected sessions that are no
\* longer in the map are passed over, the next one still in the map is
\* deleted, and when none is left the reaper goes back to sleep for its next
\* sweep.
C26_ReaperResilience ==
    [][( /\ cleanup_task.pc = "killing"
         /\ cleanup_task' # cleanup_task
         /\ cleanup_task'.pc # "cancelled" )
          => LET live == SelectSeq(cleanup_task.q, LAMBDA s : s \in Range(sessions))
             IN /\ semaphore' = semaphore + 1
                /\ IF live = <<>>
                   THEN cleanup_task'.pc = "sleep" /\ sessions' = sessions
                   ELSE /\ cleanup_task'.pc = "killing"
                        /\ cleanup_task'.sid = Head(live)
                        /\ sessions' = Remove(sessions, Head(live))
                        /\ Range(Tail(live)) \subseteq Range(cleanup_task'.q)]_vars

C26_Witness ==
    /\ cleanup_task.pc = "killing"
    /\ \E s \in Range(cleanup_task.q) : ~get_session(s).found

\* C28: once the worker of a session has returned a step response with
\* done = true, no further step command is written to it: no step exchange
\* starts on a session whose status is done.
C28_NoStepAfterDone ==
    [][\A i \in StepOps :
          (ops[i].pc = "wait_lock" /\ ops'[i].pc = "exchange")
             => status[ops[i].sid] # "done"]_vars

\* C30: at the moment create_session returns a session, its id is in the
\* map, its permit is held and no kill has been issued for its container.
C30_ReturnedSessionIsLive ==
    [][\A c \in CreateOps :
          (ops[c].pc = "init" /\ ops'[c].pc = "returned")
             => /\ c \in Range(sessions')
                /\ releases'[c] = 0
                /\ kills'[c] = 0]_vars

\* ---------------------------------------------------------- the codec
\* The payloads of a list of frames, concatenated in order and decoded.
PayloadText(fs) == utf8_decode(Flatten([k \in 1..Len(fs) |-> fs[k].payload]))

\* The number of whole frames of the stream that lie within its first n
\* bytes.
RECURSIVE WholeFrames(_, _)
WholeFrames(fs, n) ==
    IF fs = <<>> \/ Len(FrameBytes(Head(fs))) > n THEN 0
    ELSE 1 + WholeFrames(Tail(fs), n - Len(FrameBytes(Head(fs))))

\* The first recv ended inside a frame: whole frames, then a truncated one.
CutInsideFrame ==
    /\ codec_frames # <<>>
    /\ codec_cut > Len(FramesBytes(SubSeq(codec_frames, 1, WholeFrames(codec_frames, codec_cut))))

\* C23 (framing round-trip): well-formed stdout and stderr frames, with
\* payloads of any length including 0, delivered in one buffer decode to
\* exactly the concatenation of their payloads in order; no header byte
\* appears in the output.
C23_FramingRoundTrip ==
    (codec_reads = 1 /\ codec_cut = Len(Stream))
        => codec_text = PayloadText(codec_frames)

\* C24 (partial trailing frame): when a buffer is whole frames followed by
\* a truncated frame, the decoder outputs only the text of the whole frames
\* and carries the truncated suffix over to the next read, so that after
\* the next read the text is that of the same frames delivered in one read.
C24_PartialTrailingFrame ==
    CutInsideFrame =>
        /\ codec_reads = 1 =>
               codec_text = decode_docker_stream(FramesBytes(
                   SubSeq(codec_frames, 1, WholeFrames(codec_frames, codec_cut))))
        /\ codec_reads = 2 => codec_text = decode_docker_stream(Stream)

\* -------------------------------------------------------- the channel
\* C27 (request/response pairing): the k-th response returned by an
\* exchange on a session is the worker's reply to the k-th command written
\* to the session, also after an exchange that ended with a read timeout
\* while the worker's reply was outstanding.
C27_RequestResponsePairing ==
    \A k \in 1..Len(returned) :
        returned[k] # CommunicationError => returned[k] = k

\* C29 (no received text is lost): after any exchange, whether it returned
\* a line, timed out or hit EOF, the session's read carry holds exactly the
\* decoded text that was received from the stream and not yet returned as
\* a line.
C29_NoReceivedTextLost == ~reading => read_buffer = unread

\* C21 (own result per caller): the callers that submit steps for a session
\* have their exchanges made one after the other, the j-th of them (in the
\* order of the exchanges) submitting the j-th command; each completed call
\* is completed once, and no caller receives the response produced for
\* another caller's submission.
C21_OwnResultPerCaller ==
    /\ Len(returned) = IF reading THEN written - 1 ELSE written
    /\ \A j \in 1..written : \A k \in 1..Len(returned) :
           j # k => returned[k] # j

\* ---------------------------------------------------------- the reaper
\* The reaper takes session s out of the map in this step.
ReaperRemoves(s) ==
    /\ s \in Range(sessions)
    /\ s \notin Range(sessions')
    /\ removed'[s] = "reaper"

\* C31: the reaper deletes only sessions that are idle when deleted: when a
\* sweep removes a session, its idle age at that moment exceeds
\* idle_timeout_s; a session that completed a successful step after the
\* scan and before the reaper reached it is not deleted in that sweep.
C31_ReaperDeletesOnlyIdle ==
    [][\A s \in Ids : ReaperRemoves(s) => idle[s] > idle_timeout_s]_vars

====
